---- MODULE Spec2Model ----
(***************************************************************************)
(* A model of the sgreader SG2/SG3 decoder: catalog load (header, bitmap   *)
(* and image record tables, mirror and parent wiring), the per-bitmap      *)
(* pixel-store handle, and the pixel decoders (5-5-5 expansion, plain,     *)
(* sprite RLE, alpha mask).                                                *)
(***************************************************************************)
EXTENDS Integers, Sequences, FiniteSets, TLC

VARIABLES
    \* ---- catalog load (SgFile.Load) ----
    pc,          \* position inside Load
    fileExists,  \* whether the index file can be opened / stat'ed
    fileSize,    \* on-disk byte size of the index file
    header,      \* sgFile.header
    pos,         \* cursor of the open index file
    bitmaps,     \* sgFile.bitmaps
    images,      \* sgFile.images
    err,         \* the error Load returns
    \* ---- pixel store of one bitmap (SgBitmap.OpenFile / CloseFile) ----
    spc,         \* position inside OpenFile
    file,        \* sgBitmap.file: 0 is nil, otherwise an index into handles
    isExtern,    \* sgBitmap.isExtern
    handles,     \* every os.File ever opened for the bitmap
    storeFound,  \* which pixel stores find555File / os.Open can open
    sarg,        \* the isExtern argument of the running OpenFile
    sret,        \* what the last OpenFile / CloseFile returned
    \* ---- pixel decoders (SgImage) ----
    dpc,         \* position inside the running decoder
    width,       \* img.Bounds().Dx()
    height,      \* img.Bounds().Dy()
    length,      \* workRecord.Length / AlphaLength handed to the decoder
    buffer,      \* the payload bytes (0-based in the code, 1-based here)
    img,         \* the RGBA raster
    i, x, y, c, j, \* the decoder's locals
    derr,        \* the decoder's error result
    \* ---- one image under GetImage ----
    sgImage,     \* the SgImage: parent, invert and the fields of workRecord
    store,       \* the bytes of the pixel store file behind the handle
    ret          \* the raster GetImage returned (<<>> is nil)

vars == <<pc, fileExists, fileSize, header, pos, bitmaps, images, err,
          spc, file, isExtern, handles, storeFound, sarg, sret,
          dpc, width, height, length, buffer, img, i, x, y, c, j, derr,
          sgImage, store, ret>>

loadVars == <<pc, fileExists, fileSize, header, pos, bitmaps, images, err>>
storeVars == <<spc, file, isExtern, handles, storeFound, sarg, sret>>
decVars == <<dpc, width, height, length, buffer, img, i, x, y, c, j, derr>>
getVars == <<sgImage, store, ret>>

(***************************************************************************)
(* Bounds of the model.                                                    *)
(***************************************************************************)
MaxBitmaps == 2
MaxImages == 2
MaxHandles == 3
MaxWidth == 2
MaxHeight == 2
MaxLen == 4
MaxAlpha == 1

(***************************************************************************)
(* Program constants.                                                      *)
(***************************************************************************)
SG_HEADER_SIZE == 680
RECORD_SIZE == 200
\* binary.Size of SgHeader: ten 32-bit fields
SgHeaderBytes == 40
\* binary.Size of SgImageRecord and of SgImageRecordNonAlpha
SgImageRecordBytes == 72
SgImageRecordNonAlphaBytes == 64
VersionSG2 == 211
VersionSG3 == 213
VersionSG3Alpha == 214
NormalSG2Size == 74480
EnemySG2Size == 522680

NoHeader == [SgFilesize |-> 0, Version |-> 0, NumImageRecords |-> 0, NumBitmapRecords |-> 0]
NoParent == -1
\* The zero SgImageRecord (the fields GetImage and the decoders read) and the
\* image no GetImage is running on.
NoRecord == [Offset |-> 0, Length |-> 0, UncompressedLength |-> 0, Width |-> 0,
             Height |-> 0, Type |-> 0, Flags0 |-> 0, Flags3 |-> 0, AlphaLength |-> 0]
NoImage == [parent |-> FALSE, invert |-> FALSE, workRecord |-> NoRecord]
NoRaster == <<>>

\* The header values and file sizes the index file is drawn from; the two
\* record counts are drawn as counts (non-negative).
Versions == {VersionSG2, 212, VersionSG3, VersionSG3Alpha}
SgFilesizes == {NormalSG2Size, 74481, EnemySG2Size, 80000}
FileSizes == {30, 300, 80000}
Headers == [SgFilesize : SgFilesizes, Version : Versions,
            NumImageRecords : 0..MaxImages, NumBitmapRecords : 0..MaxBitmaps]
\* The fields of an image record that Load reads.
InvertOffsets == {-2, -1, 0, 1}
BitmapIds == 0..MaxBitmaps

(***************************************************************************)
(* SgFile: checkVersion, MaxBitmapRecords                                  *)
(***************************************************************************)
\* checkVersion with the SG3 size test applied to every known version.
checkVersionAnySize(h, statOk, statSize) ==
    IF h.Version = VersionSG2 \/ h.Version = VersionSG3 \/ h.Version = VersionSG3Alpha
    THEN IF ~statOk THEN FALSE
         ELSE h.SgFilesize = NormalSG2Size \/ h.SgFilesize = EnemySG2Size
                \/ h.SgFilesize = statSize
    ELSE FALSE

checkVersion(h, statOk, statSize) ==
    IF h.Version = VersionSG2
    THEN h.SgFilesize = NormalSG2Size \/ h.SgFilesize = EnemySG2Size
    ELSE IF h.Version = VersionSG3 \/ h.Version = VersionSG3Alpha
         THEN IF ~statOk THEN FALSE
              ELSE h.SgFilesize = NormalSG2Size \/ h.SgFilesize = statSize
         ELSE FALSE

MaxBitmapRecords(h) == IF h.Version = VersionSG2 THEN 100 ELSE 200

\* The bytes one image record takes in the index file.
ImageRecordSize(includeAlpha) ==
    IF includeAlpha THEN SgImageRecordBytes ELSE SgImageRecordNonAlphaBytes

\* A binary.Read of n bytes at the cursor succeeds iff the file holds them.
CanRead(n) == pos + n <= fileSize
\* The cursor after a read of n bytes that may stop at the end of the file.
AfterRead(n) == IF CanRead(n) THEN pos + n ELSE IF pos < fileSize THEN fileSize ELSE pos

(***************************************************************************)
(* SgImage construction and wiring                                         *)
(***************************************************************************)
\* newSgImage: the record read becomes record and workRecord; addr stands for
\* the pointer identity of the record.
newSgImage(id, rec) ==
    LET record == [addr |-> id, InvertOffset |-> rec.InvertOffset, BitmapId |-> rec.BitmapId]
    IN [record |-> record, workRecord |-> record,
        invert |-> (record.InvertOffset > 0), imageId |-> id, parent |-> NoParent]

SetInvertImage(image, invertImg) == [image EXCEPT !.workRecord = invertImg.record]

BitmapId(image) == image.workRecord.BitmapId

SetParent(image, b) == [image EXCEPT !.parent = b]

\* AddImage that loses the child.
AddImageDrop(bm, image) == bm

AddImage(bm, image) == [bm EXCEPT !.images = Append(@, image.imageId)]

ImageCount(bm) == Len(bm.images)

NewSgBitmap(id) == [bitmapId |-> id, images |-> <<>>]

(***************************************************************************)
(* SgFile.Load, one action per step of the handler                         *)
(***************************************************************************)
LoadFail(e) == /\ pc' = "done"
               /\ err' = e

\* os.OpenFile and NewSgHeader
Load_ReadHeader ==
    /\ pc = "start"
    /\ IF ~fileExists
       THEN LoadFail("open") /\ UNCHANGED <<header, pos>>
       ELSE IF ~CanRead(SgHeaderBytes)
            THEN LoadFail("read") /\ pos' = AfterRead(SgHeaderBytes) /\ UNCHANGED header
            ELSE /\ \E h \in Headers : header' = h
                 /\ pos' = pos + SgHeaderBytes
                 /\ pc' = "version"
                 /\ UNCHANGED err
    /\ UNCHANGED <<fileExists, fileSize, bitmaps, images>>
    /\ UNCHANGED <<storeVars, decVars, getVars>>

Load_CheckVersion ==
    /\ pc = "version"
    /\ IF ~checkVersion(header, fileExists, fileSize)
       THEN LoadFail("Incorrect sg version")
       ELSE pc' = "bitmaps" /\ UNCHANGED err
    /\ UNCHANGED <<fileExists, fileSize, header, pos, bitmaps, images>>
    /\ UNCHANGED <<storeVars, decVars, getVars>>

\* loadBitmaps: one iteration of the loop
Load_Bitmap ==
    /\ pc = "bitmaps"
    /\ Len(bitmaps) < header.NumBitmapRecords
    /\ IF ~CanRead(RECORD_SIZE)
       THEN LoadFail("read") /\ pos' = AfterRead(RECORD_SIZE) /\ UNCHANGED bitmaps
       ELSE /\ bitmaps' = Append(bitmaps, NewSgBitmap(Len(bitmaps)))
            /\ pos' = pos + RECORD_SIZE
            /\ UNCHANGED <<pc, err>>
    /\ UNCHANGED <<fileExists, fileSize, header, images>>
    /\ UNCHANGED <<storeVars, decVars, getVars>>

\* loadBitmaps returns; file.Seek to the image table
Load_Seek ==
    /\ pc = "bitmaps"
    /\ ~(Len(bitmaps) < header.NumBitmapRecords)
    /\ pos' = SG_HEADER_SIZE + MaxBitmapRecords(header) * RECORD_SIZE
    /\ pc' = "zero"
    /\ UNCHANGED <<fileExists, fileSize, header, bitmaps, images, err>>
    /\ UNCHANGED <<storeVars, decVars, getVars>>

\* loadImages: the leading record, read and dropped, its error ignored
Load_ZeroImage ==
    /\ pc = "zero"
    /\ pos' = AfterRead(ImageRecordSize(header.Version >= VersionSG3Alpha))
    /\ pc' = "images"
    /\ UNCHANGED <<fileExists, fileSize, header, bitmaps, images, err>>
    /\ UNCHANGED <<storeVars, decVars, getVars>>

\* The body of the loadImages loop for the record rec, read as image i+1.
WireImage(rec) ==
    LET n == Len(images)
        image0 == newSgImage(n + 1, rec)
        invertOffset == image0.record.InvertOffset
        image1 == IF invertOffset < 0 /\ (n + invertOffset) >= 0
                  THEN SetInvertImage(image0, images[n + invertOffset + 1])
                  ELSE image0
        bitmapId == BitmapId(image1)
        attach == bitmapId >= 0 /\ bitmapId < Len(bitmaps)
        image2 == IF attach THEN SetParent(image1, bitmapId) ELSE image1
    IN /\ bitmaps' = IF attach
                     THEN [bitmaps EXCEPT ![bitmapId + 1] = AddImage(@, image1)]
                     ELSE bitmaps
       /\ images' = Append(images, image2)

\* loadImages: one iteration of the loop
Load_Image ==
    /\ pc = "images"
    /\ Len(images) < header.NumImageRecords
    /\ LET sz == ImageRecordSize(header.Version >= VersionSG3Alpha)
       IN IF ~CanRead(sz)
          THEN LoadFail("read") /\ pos' = AfterRead(sz) /\ UNCHANGED <<bitmaps, images>>
          ELSE /\ \E rec \in [InvertOffset : InvertOffsets, BitmapId : BitmapIds] :
                      WireImage(rec)
               /\ pos' = pos + sz
               /\ UNCHANGED <<pc, err>>
    /\ UNCHANGED <<fileExists, fileSize, header>>
    /\ UNCHANGED <<storeVars, decVars, getVars>>

\* loadImages returns nil
Load_ImagesDone ==
    /\ pc = "images"
    /\ ~(Len(images) < header.NumImageRecords)
    /\ pc' = "loaded"
    /\ UNCHANGED <<fileExists, fileSize, header, pos, bitmaps, images, err>>
    /\ UNCHANGED <<storeVars, decVars, getVars>>

\* The bitmap list Load leaves: the single-bitmap compaction.
Compact(bms, imgs) ==
    IF Len(bms) > 1 /\ Len(imgs) = ImageCount(bms[1])
    THEN SubSeq(bms, 1, 0)
    ELSE bms

Load_Finish ==
    /\ pc = "loaded"
    /\ bitmaps' = Compact(bitmaps, images)
    /\ pc' = "done"
    /\ err' = "nil"
    /\ UNCHANGED <<fileExists, fileSize, header, pos, images>>
    /\ UNCHANGED <<storeVars, decVars, getVars>>

Init ==
    /\ pc = "start"
    /\ fileExists \in BOOLEAN
    /\ fileSize \in FileSizes
    /\ header = NoHeader
    /\ pos = 0
    /\ bitmaps = <<>>
    /\ images = <<>>
    /\ err = "none"
    \* the pixel store and the decoders are not running
    /\ spc = "off"
    /\ file = 0
    /\ isExtern = FALSE
    /\ handles = <<>>
    /\ storeFound = [e \in BOOLEAN |-> FALSE]
    /\ sarg = FALSE
    /\ sret = [kind |-> "none", h |-> 0]
    /\ dpc = "off"
    /\ width = 0
    /\ height = 0
    /\ length = 0
    /\ buffer = <<>>
    /\ img = <<>>
    /\ i = 0
    /\ x = 0
    /\ y = 0
    /\ c = 0
    /\ j = 0
    /\ derr = "none"
    \* no GetImage is running
    /\ sgImage = NoImage
    /\ store = <<>>
    /\ ret = NoRaster

(***************************************************************************)
(* Properties of the catalog load                                          *)
(***************************************************************************)
\* The header has been read and checkVersion has returned.
VersionDecided == header # NoHeader /\ pc # "version"

\* The (version, size) pairs the format accepts.
AcceptedPair ==
    \/ header.Version = 211 /\ header.SgFilesize \in {74480, 522680}
    \/ header.Version \in {213, 214} /\ header.SgFilesize \in {74480, fileSize}

\* C1: Load accepts a header iff (version 0xD3 and declared size 74480 or
\* 522680) or (version 0xD5 or 0xD6 and declared size 74480 or the on-disk
\* size of the index file); every other pair fails with the incorrect-version
\* error, and then the catalog holds no bitmap and no image.
C1_VersionAccept ==
    VersionDecided =>
        /\ (err # "Incorrect sg version") <=> AcceptedPair
        /\ err = "Incorrect sg version" =>
               pc = "done" /\ bitmaps = <<>> /\ images = <<>>

\* An SG2 header whose size is off by one has been rejected.
C1_Witness ==
    /\ pc = "done"
    /\ err = "Incorrect sg version"
    /\ header.Version = 211
    /\ header.SgFilesize = 74481

\* C2: the cursor is at 680 when the first bitmap record is read, bitmap
\* record n is read at 680 + 200 n, and the cursor is at
\* 680 + max_bitmap_records * 200 when the first image record is read.
C2_CursorAtTables ==
    /\ (pc = "bitmaps" /\ Len(bitmaps) < header.NumBitmapRecords) =>
           pos = 680 + 200 * Len(bitmaps)
    /\ pc = "zero" =>
           pos = 680 + (IF header.Version = 211 THEN 100 ELSE 200) * 200

\* C3: after Load, every image at 0-based index n whose invert offset k is
\* negative with n + k >= 0 has its mirror flag set and works on the record of
\* the image at index n + k, an earlier image.
C3_MirrorResolved ==
    (pc = "done" /\ err = "nil") =>
        \A p \in 1..Len(images) :
            LET k == images[p].record.InvertOffset
            IN (k < 0 /\ (p - 1) + k >= 0) =>
                   /\ images[p].invert
                   /\ p + k < p
                   /\ images[p].workRecord = images[p + k].record

\* C4: the last step of a successful Load keeps exactly the first bitmap when
\* more than one bitmap was parsed and the total image count equals the first
\* bitmap's image count, leaves the bitmap list as parsed otherwise, and never
\* changes the image list.
C4_Compaction ==
    [][(pc = "loaded" /\ pc' = "done") =>
          /\ bitmaps' = IF Len(bitmaps) > 1 /\ Len(images) = Len(bitmaps[1].images)
                        THEN <<bitmaps[1]>>
                        ELSE bitmaps
          /\ images' = images]_vars

\* How often the image with this id is in the image list of bitmap b (0-based).
Occurrences(b, id) ==
    Cardinality({q \in 1..Len(bitmaps[b + 1].images) : bitmaps[b + 1].images[q] = id})

\* The image at position p is wired as its bitmap id b demands.
WiredAs(p, b) ==
    IF b >= 0 /\ b < Len(bitmaps)
    THEN /\ images[p].parent = b
         /\ \A o \in 0..(Len(bitmaps) - 1) :
                Occurrences(o, images[p].imageId) = (IF o = b THEN 1 ELSE 0)
    ELSE /\ images[p].parent = NoParent
         /\ \A o \in 0..(Len(bitmaps) - 1) : Occurrences(o, images[p].imageId) = 0

\* The global list holds the images in record order.
InRecordOrder == \A p \in 1..Len(images) : images[p].imageId = p

\* C5 (as stated): after loadImages every image is wired by its own record's
\* bitmap id, and the global list holds every image in record order, as many as
\* the header's image-record count.
C5_WiredByOwnRecord ==
    pc = "loaded" =>
        /\ \A p \in 1..Len(images) : WiredAs(p, images[p].record.BitmapId)
        /\ InRecordOrder
        /\ Len(images) = header.NumImageRecords

\* C5 (amended): after loadImages every image is wired by its working record's
\* bitmap id (the mirror source's record once a negative invert offset has
\* resolved, otherwise its own), and the global list holds every image in
\* record order, as many as the header's (non-negative) image-record count.
C5_WiredByWorkRecord ==
    pc = "loaded" =>
        /\ \A p \in 1..Len(images) : WiredAs(p, images[p].workRecord.BitmapId)
        /\ InRecordOrder
        /\ Len(images) = header.NumImageRecords

\* A resolved mirror image whose own bitmap id differs from its source's, one
\* attached image and one orphan, after loadImages.
C5_Witness ==
    /\ pc = "loaded"
    /\ Len(images) = 2
    /\ Len(bitmaps) = 2
    /\ images[2].workRecord = images[1].record
    /\ images[2].record.BitmapId # images[1].record.BitmapId
    /\ images[2].parent = 1


LoadNext ==
    \/ Load_ReadHeader
    \/ Load_CheckVersion
    \/ Load_Bitmap
    \/ Load_Seek
    \/ Load_ZeroImage
    \/ Load_Image
    \/ Load_ImagesDone
    \/ Load_Finish

Next == LoadNext

Spec == Init /\ [][Next]_vars
(***************************************************************************)
(* SgBitmap.OpenFile / CloseFile: the pixel store of one bitmap            *)
(***************************************************************************)
NoResult == [kind |-> "none", h |-> 0]
FileResult(h) == [kind |-> "file", h |-> h]
ErrorResult == [kind |-> "error", h |-> 0]
NilResult == [kind |-> "nil", h |-> 0]

\* os.File.Close on the handle h (closing a closed handle changes nothing).
Close(hs, h) == [hs EXCEPT ![h].open = FALSE]

\* The open handles of the bitmap.
OpenHandles == {h \in 1..Len(handles) : handles[h].open}

\* OpenFile that forgets the handle of the other classification unclosed.
OpenFile_SwitchLeak(e) ==
    /\ spc = "idle"
    /\ Len(handles) < MaxHandles
    /\ sarg' = e
    /\ IF file # 0 /\ isExtern # e
       THEN file' = 0 /\ UNCHANGED handles
       ELSE UNCHANGED <<file, handles>>
    /\ isExtern' = e
    /\ spc' = "switched"
    /\ UNCHANGED <<storeFound, sret>>
    /\ UNCHANGED <<loadVars, decVars, getVars>>

\* OpenFile(isExtern), first half: drop a handle of the other classification.
OpenFile_Switch(e) ==
    /\ spc = "idle"
    /\ Len(handles) < MaxHandles
    /\ sarg' = e
    /\ IF file # 0 /\ isExtern # e
       THEN handles' = Close(handles, file) /\ file' = 0
       ELSE UNCHANGED <<file, handles>>
    /\ isExtern' = e
    /\ spc' = "switched"
    /\ UNCHANGED <<storeFound, sret>>
    /\ UNCHANGED <<loadVars, decVars, getVars>>

\* OpenFile, second half: find and open the store when no handle is held.
OpenFile_Open ==
    /\ spc = "switched"
    /\ IF file = 0
       THEN IF ~storeFound[isExtern]
            THEN sret' = ErrorResult /\ UNCHANGED <<file, handles>>
            ELSE /\ handles' = Append(handles, [isExtern |-> isExtern, open |-> TRUE])
                 /\ file' = Len(handles) + 1
                 /\ sret' = FileResult(Len(handles) + 1)
       ELSE sret' = FileResult(file) /\ UNCHANGED <<file, handles>>
    /\ spc' = "idle"
    /\ UNCHANGED <<isExtern, storeFound, sarg>>
    /\ UNCHANGED <<loadVars, decVars, getVars>>

\* CloseFile: sgBitmap.file.Close(), the field is left as it is.
CloseFile ==
    /\ spc = "idle"
    /\ IF file = 0
       THEN sret' = ErrorResult /\ UNCHANGED handles
       ELSE IF handles[file].open
            THEN handles' = Close(handles, file) /\ sret' = NilResult
            ELSE sret' = ErrorResult /\ UNCHANGED handles
    /\ UNCHANGED <<spc, file, isExtern, storeFound, sarg>>
    /\ UNCHANGED <<loadVars, decVars, getVars>>

StoreInit ==
    /\ spc = "idle"
    /\ file = 0
    /\ isExtern = FALSE
    /\ handles = <<>>
    /\ storeFound \in [BOOLEAN -> BOOLEAN]
    /\ sarg = FALSE
    /\ sret = NoResult
    \* no load and no decoder is running
    /\ pc = "idle"
    /\ fileExists = FALSE
    /\ fileSize = 0
    /\ header = NoHeader
    /\ pos = 0
    /\ bitmaps = <<>>
    /\ images = <<>>
    /\ err = "none"
    /\ dpc = "off"
    /\ width = 0
    /\ height = 0
    /\ length = 0
    /\ buffer = <<>>
    /\ img = <<>>
    /\ i = 0
    /\ x = 0
    /\ y = 0
    /\ c = 0
    /\ j = 0
    /\ derr = "none"
    \* no GetImage is running
    /\ sgImage = NoImage
    /\ store = <<>>
    /\ ret = NoRaster

StoreNext ==
    \/ \E e \in BOOLEAN : OpenFile_Switch(e)
    \/ OpenFile_Open
    \/ CloseFile

SpecStore == StoreInit /\ [][StoreNext]_vars

\* C6: the bitmap never has more than one pixel-store handle open; a handle of
\* the other classification is closed before the new store is opened (every
\* open handle is the one the bitmap holds, and none is open when OpenFile goes
\* on to open a store); and the handle a successful OpenFile(c) returns was
\* opened for classification c.
C6_OneHandlePerBitmap ==
    /\ Cardinality(OpenHandles) <= 1
    /\ \A h \in OpenHandles : h = file
    /\ (spc = "switched" /\ file = 0) => OpenHandles = {}
    /\ (spc = "idle" /\ sret.kind = "file") => handles[sret.h].isExtern = sarg

\* OpenFile has replaced an open handle by one of the other classification.
C6_Witness ==
    /\ spc = "idle"
    /\ Len(handles) = 2
    /\ handles[1].isExtern # handles[2].isExtern
    /\ ~handles[1].open
    /\ handles[2].open
    /\ sret = FileResult(2)
    /\ sarg = handles[2].isExtern

(***************************************************************************)
(* Fixed-width integer arithmetic of the decoders                          *)
(***************************************************************************)
RECURSIVE BitAnd(_, _)
BitAnd(a, b) ==
    IF a = 0 \/ b = 0 THEN 0
    ELSE (IF a % 2 = 1 /\ b % 2 = 1 THEN 1 ELSE 0) + 2 * BitAnd(a \div 2, b \div 2)

RECURSIVE BitOr(_, _)
BitOr(a, b) ==
    IF a = 0 THEN b
    ELSE IF b = 0 THEN a
    ELSE (IF a % 2 = 1 \/ b % 2 = 1 THEN 1 ELSE 0) + 2 * BitOr(a \div 2, b \div 2)

\* a << n and a >> n on a value of type uint16 / uint8
Shl16(a, n) == (a * (2 ^ n)) % 65536
Shl8(a, n) == (a * (2 ^ n)) % 256
Shr(a, n) == a \div (2 ^ n)
\* the conversion uint8(v)
Uint8(v) == v % 256

(***************************************************************************)
(* The RGBA raster                                                         *)
(***************************************************************************)
TransparentBlack == <<0, 0, 0, 0>>

\* image.NewRGBA(image.Rect(0, 0, w, h)) filled with one colour
NewRGBA(w, h, fill) == [p \in (0..(w - 1)) \X (0..(h - 1)) |-> fill]

\* img.Set(x, y, colour): a point outside the bounds is ignored
ImgSet(im, px, py, col) ==
    IF <<px, py>> \in DOMAIN im THEN [im EXCEPT ![<<px, py>>] = col] ELSE im

\* img.At(x, y): a point outside the bounds reads as the zero colour
ImgAt(im, px, py) ==
    IF <<px, py>> \in DOMAIN im THEN im[<<px, py>>] ELSE TransparentBlack

\* set555Pixel(img, x, y, c) with c a uint16: every shift below is a uint16
\* shift, its result converted to uint32 afterwards. rgb holds bits 0-23 of the
\* code's uint32 rgb: its top byte, 0xff, is masked away by every read.
set555Pixel(im, px, py, cc) ==
    IF cc = 63519                                                \* 0xf81f
    THEN im
    ELSE LET rgb0 == 0                                           \* 0xff000000, low 24 bits
             red == BitOr(Shl16(BitAnd(cc, 31744), 9),           \* (c&0x7c00)<<9
                          Shl16(BitAnd(cc, 28672), 4))           \* (c&0x7000)<<4
             green == BitOr(Shl16(BitAnd(cc, 992), 6),           \* (c&0x3e0)<<6
                            BitAnd(cc, 768))                     \* c&0x300
             blue == BitOr(Shl16(BitAnd(cc, 31), 3),             \* (c&0x1f)<<3
                           Shr(BitAnd(cc, 28), 2))               \* (c&0x1c)>>2
             rgb == BitOr(BitOr(BitOr(rgb0, red), green), blue)
         IN ImgSet(im, px, py,
                   <<Uint8(BitAnd(rgb, 255)),
                     Uint8(Shr(BitAnd(rgb, 65280), 8)),
                     Uint8(Shr(BitAnd(rgb, 16711680), 16)),
                     255>>)

\* setAlphaPixel(img, x, y, c2) with c2 a uint8; Color.RGBA() returns each
\* channel as v | v << 8.
setAlphaPixel(im, px, py, c2) ==
    LET alpha == BitOr(Shl8(BitAnd(c2, 31), 3), Shr(BitAnd(c2, 28), 2))
        col == ImgAt(im, px, py)
    IN ImgSet(im, px, py, <<Uint8(col[1] * 257), Uint8(col[2] * 257),
                            Uint8(col[3] * 257), alpha>>)

\* buffer[n] of the code (0-based)
Byte(n) == buffer[n + 1]

(***************************************************************************)
(* set555Pixel on every 16-bit word                                        *)
(***************************************************************************)
\* The colours a raster may hold before a decoder writes to it.
PriorColours == {TransparentBlack, <<8, 16, 24, 255>>}

PixelInit ==
    /\ dpc = "pixel"
    /\ width = 2
    /\ height = 1
    /\ \E fill \in PriorColours : img = NewRGBA(2, 1, fill)
    /\ c \in 0..65535
    /\ x = 0
    /\ y = 0
    /\ length = 0
    /\ buffer = <<>>
    /\ i = 0
    /\ j = 0
    /\ derr = "none"
    \* no load and no pixel store is running
    /\ pc = "idle"
    /\ fileExists = FALSE
    /\ fileSize = 0
    /\ header = NoHeader
    /\ pos = 0
    /\ bitmaps = <<>>
    /\ images = <<>>
    /\ err = "none"
    /\ spc = "off"
    /\ file = 0
    /\ isExtern = FALSE
    /\ handles = <<>>
    /\ storeFound = [e \in BOOLEAN |-> FALSE]
    /\ sarg = FALSE
    /\ sret = [kind |-> "none", h |-> 0]
    \* no GetImage is running
    /\ sgImage = NoImage
    /\ store = <<>>
    /\ ret = NoRaster

Set555Pixel ==
    /\ dpc = "pixel"
    /\ img' = set555Pixel(img, x, y, c)
    /\ dpc' = "done"
    /\ UNCHANGED <<width, height, length, buffer, i, x, y, c, j, derr>>
    /\ UNCHANGED <<loadVars, storeVars, getVars>>

PixelNext == Set555Pixel

SpecPixel == PixelInit /\ [][PixelNext]_vars

\* (v5 << 3) | (v5 >> 2) of a 5-bit value
Expand5(v5) == v5 * 8 + v5 \div 4

\* C7: for every 16-bit word c other than 0xF81F, set555Pixel writes
\* (R,G,B,A) = (Expand5(bits 10-14), Expand5(bits 5-9), Expand5(bits 0-4), 255);
\* for c = 0xF81F the destination pixel is left untouched (it still equals its
\* unwritten neighbour, which holds the same prior colour).
C7_Expand555 ==
    dpc = "done" =>
        IF c = 63519
        THEN img[<<0, 0>>] = img[<<1, 0>>]
        ELSE img[<<0, 0>>] = <<Expand5((c \div 1024) % 32), Expand5((c \div 32) % 32),
                               Expand5(c % 32), 255>>

(***************************************************************************)
(* loadPlainImage                                                          *)
(***************************************************************************)
\* The payload bytes a plain image is drawn from.
PlainBytes == {0, 3, 31, 224, 248}

\* The payloads of n bytes over the byte set bs.
Payloads(n, bs) == [1..n -> bs]

\* The nested loops of loadPlainImage from pixel k (row-major) on; the word is
\* uint16(buffer[i]) | uint16(buffer[i]<<8), the shift being a uint8 shift.
RECURSIVE PlainLoop(_, _, _, _, _)
PlainLoop(im, buf, w, h, k) ==
    IF k >= w * h
    THEN im
    ELSE LET b == buf[2 * k + 1]
             word == BitOr(b, Shl8(b, 8))
         IN PlainLoop(set555Pixel(im, k % w, k \div w, word), buf, w, h, k + 1)

LoadPlainImage ==
    /\ dpc = "plain"
    /\ IF height * width * 2 # length
       THEN derr' = "Image data length doesn't match image size" /\ UNCHANGED img
       ELSE derr' = "nil" /\ img' = PlainLoop(img, buffer, width, height, 0)
    /\ dpc' = "done"
    /\ UNCHANGED <<width, height, length, buffer, i, x, y, c, j>>
    /\ UNCHANGED <<loadVars, storeVars, getVars>>

PlainInit ==
    /\ dpc = "plain"
    /\ width \in 1..MaxWidth
    /\ height \in 1..MaxHeight
    /\ length \in 0..MaxLen
    /\ buffer \in Payloads(length, PlainBytes)
    /\ img = NewRGBA(width, height, TransparentBlack)
    /\ i = 0
    /\ x = 0
    /\ y = 0
    /\ c = 0
    /\ j = 0
    /\ derr = "none"
    \* no load and no pixel store is running
    /\ pc = "idle"
    /\ fileExists = FALSE
    /\ fileSize = 0
    /\ header = NoHeader
    /\ pos = 0
    /\ bitmaps = <<>>
    /\ images = <<>>
    /\ err = "none"
    /\ spc = "off"
    /\ file = 0
    /\ isExtern = FALSE
    /\ handles = <<>>
    /\ storeFound = [e \in BOOLEAN |-> FALSE]
    /\ sarg = FALSE
    /\ sret = [kind |-> "none", h |-> 0]
    \* no GetImage is running
    /\ sgImage = NoImage
    /\ store = <<>>
    /\ ret = NoRaster

PlainNext == LoadPlainImage

SpecPlain == PlainInit /\ [][PlainNext]_vars

\* The little-endian 16-bit word at payload bytes 2k (low) and 2k + 1 (high).
WordLE(buf, k) == buf[2 * k + 1] + 256 * buf[2 * k + 2]

\* The pixel a 5-5-5 word decodes to over the transparent pre-fill.
Pixel555(word) ==
    IF word = 63519
    THEN TransparentBlack
    ELSE <<Expand5((word \div 1024) % 32), Expand5((word \div 32) % 32),
           Expand5(word % 32), 255>>

\* C8: the plain decoder fails whenever length # 2 * width * height, and
\* otherwise pixel (px, py) is decoded from the little-endian word at payload
\* bytes 2(py * width + px) and 2(py * width + px) + 1; so payload 1F F8 leaves
\* a 1x1 image at the pre-fill and payload 1F 00 E0 03 decodes a 2x1 image to
\* (0,0,255,255), (0,255,0,255).
C8_PlainDecode ==
    dpc = "done" =>
        /\ (derr # "nil") <=> (length # 2 * width * height)
        /\ derr = "nil" =>
               \A p \in DOMAIN img :
                   img[p] = Pixel555(WordLE(buffer, p[2] * width + p[1]))
        /\ (width = 1 /\ height = 1 /\ buffer = <<31, 248>>) =>
               img[<<0, 0>>] = TransparentBlack
        /\ (width = 2 /\ height = 1 /\ buffer = <<31, 0, 224, 3>>) =>
               img = (<<0, 0>> :> <<0, 0, 255, 255>> @@ <<1, 0>> :> <<0, 255, 0, 255>>)

(***************************************************************************)
(* writeTransparentImage (loadSpriteImage)                                 *)
(***************************************************************************)
\* The payload bytes a run-length stream is drawn from.
RleBytes == {0, 1, 2, 31, 255}

\* x and y after `for x >= width { y++; x -= width }`: with x >= 0 and
\* width > 0 the loop runs x / width times and leaves x % width.
WrapX(px, py, w) == <<px % w, py + px \div w>>

\* for i < length: c := int(buffer[i]); i++
WT_Control ==
    /\ dpc = "loop"
    /\ i < length
    /\ c' = Byte(i)
    /\ i' = i + 1
    /\ j' = 0
    /\ dpc' = IF Byte(i) = 255 THEN "skip" ELSE "run"
    /\ UNCHANGED <<width, height, length, buffer, img, x, y, derr>>
    /\ UNCHANGED <<loadVars, storeVars, getVars>>

\* c == 255: x += int(buffer[i]); i++; wrap
WT_Skip ==
    /\ dpc = "skip"
    /\ IF i >= Len(buffer)
       THEN dpc' = "panic" /\ UNCHANGED <<i, x, y>>
       ELSE /\ x' = WrapX(x + Byte(i), y, width)[1]
            /\ y' = WrapX(x + Byte(i), y, width)[2]
            /\ i' = i + 1
            /\ dpc' = "loop"
    /\ UNCHANGED <<width, height, length, buffer, img, c, j, derr>>
    /\ UNCHANGED <<loadVars, storeVars, getVars>>

\* one turn of `for j := 0; j < c; j++`: the word is
\* uint16(buffer[i+1]<<8) | uint16(buffer[i]), the shift being a uint8 shift.
WT_Pixel ==
    /\ dpc = "run"
    /\ j < c
    /\ IF i + 1 >= Len(buffer)
       THEN dpc' = "panic" /\ UNCHANGED <<img, i, x, y, j>>
       ELSE /\ img' = set555Pixel(img, x, y, BitOr(Shl8(Byte(i + 1), 8), Byte(i)))
            /\ x' = IF x + 1 >= width THEN 0 ELSE x + 1
            /\ y' = IF x + 1 >= width THEN y + 1 ELSE y
            /\ i' = i + 2
            /\ j' = j + 1
            /\ UNCHANGED dpc
    /\ UNCHANGED <<width, height, length, buffer, c, derr>>
    /\ UNCHANGED <<loadVars, storeVars, getVars>>

WT_RunEnd ==
    /\ dpc = "run"
    /\ ~(j < c)
    /\ dpc' = "loop"
    /\ UNCHANGED <<width, height, length, buffer, img, i, x, y, c, j, derr>>
    /\ UNCHANGED <<loadVars, storeVars, getVars>>

WT_Exit ==
    /\ dpc = "loop"
    /\ ~(i < length)
    /\ dpc' = "done"
    /\ UNCHANGED <<width, height, length, buffer, img, i, x, y, c, j, derr>>
    /\ UNCHANGED <<loadVars, storeVars, getVars>>

\* loadSpriteImage: the buffer holds the Length payload bytes followed by the
\* AlphaLength bytes of the alpha mask.
SpriteInit ==
    /\ dpc = "loop"
    /\ width \in 1..MaxWidth
    /\ height \in 1..MaxHeight
    /\ length \in 0..MaxLen
    /\ \E alphaLength \in 0..MaxAlpha : buffer \in Payloads(length + alphaLength, RleBytes)
    /\ img = NewRGBA(width, height, TransparentBlack)
    /\ i = 0
    /\ x = 0
    /\ y = 0
    /\ c = 0
    /\ j = 0
    /\ derr = "none"
    \* no load and no pixel store is running
    /\ pc = "idle"
    /\ fileExists = FALSE
    /\ fileSize = 0
    /\ header = NoHeader
    /\ pos = 0
    /\ bitmaps = <<>>
    /\ images = <<>>
    /\ err = "none"
    /\ spc = "off"
    /\ file = 0
    /\ isExtern = FALSE
    /\ handles = <<>>
    /\ storeFound = [e \in BOOLEAN |-> FALSE]
    /\ sarg = FALSE
    /\ sret = [kind |-> "none", h |-> 0]
    \* no GetImage is running
    /\ sgImage = NoImage
    /\ store = <<>>
    /\ ret = NoRaster

SpriteNext ==
    \/ WT_Control
    \/ WT_Skip
    \/ WT_Pixel
    \/ WT_RunEnd
    \/ WT_Exit

SpecSprite == SpriteInit /\ [][SpriteNext]_vars

\* C9: the sprite decoder consumes exactly length bytes: its read index is
\* below length whenever it reads a control byte, a skip count or a pixel word
\* (two bytes), it never reads outside the buffer, and the index equals length
\* on exit; and at most width * height pixels of the raster are non-transparent.
C9_SpriteConsumesLength ==
    /\ dpc = "skip" => i < length
    /\ (dpc = "run" /\ j < c) => i + 1 < length
    /\ dpc # "panic"
    /\ dpc = "done" => i = length
    /\ Cardinality({p \in DOMAIN img : img[p] # TransparentBlack}) <= width * height

(***************************************************************************)
(* loadAlphaMask                                                           *)
(***************************************************************************)
Alpha_Control ==
    /\ dpc = "loop"
    /\ i < length
    /\ c' = Byte(i)
    /\ i' = i + 1
    /\ j' = 0
    /\ dpc' = IF Byte(i) = 255 THEN "skip" ELSE "run"
    /\ UNCHANGED <<width, height, length, buffer, img, x, y, derr>>
    /\ UNCHANGED <<loadVars, storeVars, getVars>>

Alpha_Skip ==
    /\ dpc = "skip"
    /\ IF i >= Len(buffer)
       THEN dpc' = "panic" /\ UNCHANGED <<i, x, y>>
       ELSE /\ x' = WrapX(x + Byte(i), y, width)[1]
            /\ y' = WrapX(x + Byte(i), y, width)[2]
            /\ i' = i + 1
            /\ dpc' = "loop"
    /\ UNCHANGED <<width, height, length, buffer, img, c, j, derr>>
    /\ UNCHANGED <<loadVars, storeVars, getVars>>

\* one turn of `for j := 0; j < c; j++`
Alpha_Data ==
    /\ dpc = "run"
    /\ j < c
    /\ IF i >= Len(buffer)
       THEN dpc' = "panic" /\ UNCHANGED <<img, i, x, y, j>>
       ELSE /\ img' = setAlphaPixel(img, x, y, Byte(i))
            /\ x' = IF x + 1 >= width THEN 0 ELSE x + 1
            /\ y' = IF x + 1 >= width THEN y + 1 ELSE y
            /\ i' = i + 2
            /\ j' = j + 1
            /\ UNCHANGED dpc
    /\ UNCHANGED <<width, height, length, buffer, c, derr>>
    /\ UNCHANGED <<loadVars, storeVars, getVars>>

Alpha_RunEnd ==
    /\ dpc = "run"
    /\ ~(j < c)
    /\ dpc' = "loop"
    /\ UNCHANGED <<width, height, length, buffer, img, i, x, y, c, j, derr>>
    /\ UNCHANGED <<loadVars, storeVars, getVars>>

Alpha_Exit ==
    /\ dpc = "loop"
    /\ ~(i < length)
    /\ dpc' = "done"
    /\ UNCHANGED <<width, height, length, buffer, img, i, x, y, c, j, derr>>
    /\ UNCHANGED <<loadVars, storeVars, getVars>>

\* loadAlphaMask: the buffer is buffer[Length:], the AlphaLength mask bytes,
\* over a raster the payload decoder has already filled.
AlphaInit ==
    /\ dpc = "loop"
    /\ width \in 1..MaxWidth
    /\ height \in 1..MaxHeight
    /\ length \in 1..MaxLen
    /\ buffer \in Payloads(length, RleBytes)
    /\ \E fill \in PriorColours : img = NewRGBA(width, height, fill)
    /\ i = 0
    /\ x = 0
    /\ y = 0
    /\ c = 0
    /\ j = 0
    /\ derr = "none"
    \* no load and no pixel store is running
    /\ pc = "idle"
    /\ fileExists = FALSE
    /\ fileSize = 0
    /\ header = NoHeader
    /\ pos = 0
    /\ bitmaps = <<>>
    /\ images = <<>>
    /\ err = "none"
    /\ spc = "off"
    /\ file = 0
    /\ isExtern = FALSE
    /\ handles = <<>>
    /\ storeFound = [e \in BOOLEAN |-> FALSE]
    /\ sarg = FALSE
    /\ sret = [kind |-> "none", h |-> 0]
    \* no GetImage is running
    /\ sgImage = NoImage
    /\ store = <<>>
    /\ ret = NoRaster

AlphaNext ==
    \/ Alpha_Control
    \/ Alpha_Skip
    \/ Alpha_Data
    \/ Alpha_RunEnd
    \/ Alpha_Exit

SpecAlpha == AlphaInit /\ [][AlphaNext]_vars

\* C10: the alpha-mask decoder follows a control byte 255 by one skip-count
\* byte, and any other control byte c by c data bytes, each consumed by
\* advancing the read index by one and applied to the next pixel in cursor
\* order, changing only that pixel's alpha channel, to Expand5 of the byte's
\* low five bits.
C10_AlphaDataBytes ==
    [][/\ (dpc = "loop" /\ dpc' # "done") =>
              /\ i' = i + 1
              /\ dpc' = IF Byte(i) = 255 THEN "skip" ELSE "run"
       /\ (dpc = "skip" /\ dpc' # "panic") =>
              /\ i' = i + 1
              /\ dpc' = "loop"
       /\ (dpc = "run" /\ j < c /\ dpc' # "panic") =>
              /\ i' = i + 1
              /\ j' = j + 1
              /\ <<x', y'>> = IF x + 1 >= width THEN <<0, y + 1>> ELSE <<x + 1, y>>
              /\ \A p \in DOMAIN img :
                     img'[p] = IF p = <<x, y>>
                               THEN <<img[p][1], img[p][2], img[p][3],
                                      Expand5(Byte(i) % 32)>>
                               ELSE img[p]]_vars

(***************************************************************************)
(* GetImage: the mirroring step                                            *)
(***************************************************************************)
\* The colours of a decoded raster.
MirrorColours == {TransparentBlack, <<8, 16, 24, 255>>, <<255, 0, 0, 255>>}

\* The two nested loops of GetImage from iteration k on, y running over
\* 0..dy and x over 0..dx/2 (both bounds included); reads come from result,
\* writes go to mirrored.
RECURSIVE MirrorLoop(_, _, _, _, _)
MirrorLoop(mir, result, dx, dy, k) ==
    LET xs == dx \div 2 + 1
        my == k \div xs
        mx == k % xs
    IN IF my > dy
       THEN mir
       ELSE LET m1 == ImgSet(mir, mx, my, ImgAt(result, dx - mx, my))
                m2 == ImgSet(m1, dx - mx, my, ImgAt(result, mx, my))
            IN MirrorLoop(m2, result, dx, dy, k + 1)

\* mirrored := image.NewRGBA(result.Bounds()) filled by the loops
Mirror(result, dx, dy) == MirrorLoop(NewRGBA(dx, dy, TransparentBlack), result, dx, dy, 0)

\* The end of GetImage: the mirrored copy when sgImage.invert, else result.
GetImage_Return ==
    /\ dpc = "decoded"
    /\ ret' = IF sgImage.invert THEN Mirror(img, width, height) ELSE img
    /\ dpc' = "returned"
    /\ UNCHANGED <<width, height, length, buffer, img, i, x, y, c, j, derr>>
    /\ UNCHANGED <<sgImage, store>>
    /\ UNCHANGED <<loadVars, storeVars>>

MirrorInit ==
    /\ dpc = "decoded"
    /\ width \in 1..MaxWidth
    /\ height \in 1..MaxHeight
    /\ img \in [(0..(width - 1)) \X (0..(height - 1)) -> MirrorColours]
    /\ \E inv \in BOOLEAN :
           sgImage = [parent |-> TRUE, invert |-> inv,
                      workRecord |-> [NoRecord EXCEPT !.Width = width, !.Height = height,
                                                      !.Length = 1]]
    /\ ret = NoRaster
    /\ store = <<>>
    /\ length = 0
    /\ buffer = <<>>
    /\ i = 0
    /\ x = 0
    /\ y = 0
    /\ c = 0
    /\ j = 0
    /\ derr = "nil"
    \* no load and no pixel store is running
    /\ pc = "idle"
    /\ fileExists = FALSE
    /\ fileSize = 0
    /\ header = NoHeader
    /\ pos = 0
    /\ bitmaps = <<>>
    /\ images = <<>>
    /\ err = "none"
    /\ spc = "off"
    /\ file = 0
    /\ isExtern = FALSE
    /\ handles = <<>>
    /\ storeFound = [e \in BOOLEAN |-> FALSE]
    /\ sarg = FALSE
    /\ sret = [kind |-> "none", h |-> 0]

MirrorNext == GetImage_Return

SpecMirror == MirrorInit /\ [][MirrorNext]_vars

\* C11: when the mirror flag is set, the raster GetImage returns is the
\* horizontal reflection of the decoded raster, out[x, y] = in[width - 1 - x, y]
\* for every pixel, and mirroring the returned raster once more gives the
\* decoded raster back.
C11_MirrorReflects ==
    (dpc = "returned" /\ sgImage.invert) =>
        /\ DOMAIN ret = DOMAIN img
        /\ \A p \in DOMAIN img : ret[p] = img[<<width - 1 - p[1], p[2]>>]
        /\ Mirror(ret, width, height) = img

(***************************************************************************)
(* fillBuffer: the payload bytes of one image                              *)
(***************************************************************************)
\* file.Read(buffer) at cursor at: the bytes the file holds from there on, at
\* most n of them.
ReadCount(st, at, n) ==
    IF at >= Len(st) THEN 0
    ELSE IF Len(st) - at < n THEN Len(st) - at ELSE n

\* make([]byte, n) after a Read at cursor at that returned got bytes
ReadInto(st, at, n, got) == [k \in 1..n |-> IF k <= got THEN st[at + k] ELSE 0]

\* buffer[from] ... buffer[from + 3] = 0 (0-based from)
ZeroFour(buf, from) ==
    [k \in 1..Len(buf) |-> IF k > from /\ k <= from + 4 THEN 0 ELSE buf[k]]

\* fillBuffer that seeks to Offset for external images too.
fillBufferNoAdjust(rec, st, opened) ==
    LET dataLength == rec.Length + rec.AlphaLength
        seekPos == rec.Offset
        dataRead == ReadCount(st, seekPos, dataLength)
        readErr == dataLength > 0 /\ dataRead = 0
    IN IF seekPos < 0 \/ ~opened
       THEN [buffer |-> <<>>, err |-> "seek failed"]
       ELSE IF dataLength # dataRead \/ readErr
            THEN IF dataRead + 4 = dataLength
                 THEN [buffer |-> ZeroFour(ReadInto(st, seekPos, dataLength, dataRead), dataRead),
                       err |-> "nil"]
                 ELSE [buffer |-> <<>>, err |-> "Unable to read"]
            ELSE [buffer |-> ReadInto(st, seekPos, dataLength, dataRead), err |-> "nil"]

\* fillBuffer once OpenFile has returned a handle: seek, read, and the
\* tolerance for a read four bytes short. opened tells whether the handle is
\* still open (Seek fails on a closed file and on a negative position); Read
\* reports io.EOF when it returns no byte.
fillBuffer(rec, st, opened) ==
    LET dataLength == rec.Length + rec.AlphaLength
        seekPos == IF rec.Flags0 # 0 THEN rec.Offset - 1 ELSE rec.Offset
        dataRead == ReadCount(st, seekPos, dataLength)
        readErr == dataLength > 0 /\ dataRead = 0
    IN IF seekPos < 0 \/ ~opened
       THEN [buffer |-> <<>>, err |-> "seek failed"]
       ELSE IF dataLength # dataRead \/ readErr
            THEN IF dataRead + 4 = dataLength
                 THEN [buffer |-> ZeroFour(ReadInto(st, seekPos, dataLength, dataRead), dataRead),
                       err |-> "nil"]
                 ELSE [buffer |-> <<>>, err |-> "Unable to read"]
            ELSE [buffer |-> ReadInto(st, seekPos, dataLength, dataRead), err |-> "nil"]

\* fillBuffer, the call sgImage.parent.OpenFile(Flags[0] != 0)
Fill_OpenFile ==
    /\ dpc = "fill"
    /\ sgImage.parent
    /\ sret = NoResult
    /\ OpenFile_Switch(sgImage.workRecord.Flags0 # 0)

\* fillBuffer after OpenFile has returned
Fill_Read ==
    /\ dpc = "fill"
    /\ spc = "idle"
    /\ sret # NoResult
    /\ IF sret.kind # "file"
       THEN /\ derr' = "open failed"
            /\ buffer' = <<>>
            /\ dpc' = "failed"
       ELSE LET r == fillBuffer(sgImage.workRecord, store, handles[sret.h].open)
            IN /\ derr' = r.err
               /\ buffer' = r.buffer
               /\ dpc' = IF r.err = "nil" THEN "filled" ELSE "failed"
    /\ UNCHANGED <<width, height, length, img, i, x, y, c, j>>
    /\ UNCHANGED <<loadVars, storeVars, getVars>>

(***************************************************************************)
(* writeIsometricBase: the tile geometry of an isometric image             *)
(***************************************************************************)
ISOMETRIC_TILE_WIDTH == 58
ISOMETRIC_TILE_HEIGHT == 30
ISOMETRIC_TILE_BYTES == 1800
ISOMETRIC_LARGE_TILE_WIDTH == 78
ISOMETRIC_LARGE_TILE_HEIGHT == 40
ISOMETRIC_LARGE_TILE_BYTES == 3200

\* height := (width + 2) / 2
FootprintHeight(w) == (w + 2) \div 2

\* size: Flags[3], or derived from the footprint height when that is 0
TileGridSize(h, flags3) ==
    IF flags3 # 0 THEN flags3
    ELSE IF h % ISOMETRIC_TILE_HEIGHT = 0 THEN h \div ISOMETRIC_TILE_HEIGHT
    ELSE IF h % ISOMETRIC_LARGE_TILE_HEIGHT = 0 THEN h \div ISOMETRIC_LARGE_TILE_HEIGHT
    ELSE 0

NoTile == [bytes |-> 0, height |-> 0, width |-> 0]

\* tileBytes, tileHeight, tileWidth for the resolved size
TileOf(h, size) ==
    IF ISOMETRIC_TILE_HEIGHT * size = h
    THEN [bytes |-> ISOMETRIC_TILE_BYTES, height |-> ISOMETRIC_TILE_HEIGHT,
          width |-> ISOMETRIC_TILE_WIDTH]
    ELSE IF ISOMETRIC_LARGE_TILE_HEIGHT * size = h
         THEN [bytes |-> ISOMETRIC_LARGE_TILE_BYTES, height |-> ISOMETRIC_LARGE_TILE_HEIGHT,
               width |-> ISOMETRIC_LARGE_TILE_WIDTH]
         ELSE NoTile

\* writeIsometricBase up to its loop: the tile size is resolved and the
\* footprint checked. Formatting the tile-size error evaluates 2*height/size,
\* an integer division that panics when size is 0. In the loop i counts the
\* tiles, y the rows, x the tiles of the row, c is xOffset and j is yOffset.
Iso_Resolve ==
    /\ dpc = "iso"
    /\ LET h == FootprintHeight(width)
           size == TileGridSize(h, sgImage.workRecord.Flags3)
       IN IF TileOf(h, size) = NoTile
          THEN IF size = 0
               THEN dpc' = "panic" /\ UNCHANGED <<derr, i, x, y, c, j>>
               ELSE /\ derr' = "Unknown tile size"
                    /\ dpc' = "done"
                    /\ UNCHANGED <<i, x, y, c, j>>
          ELSE IF (width + 2) * h # sgImage.workRecord.UncompressedLength
               THEN /\ derr' = "Data length doesn't match footprint size"
                    /\ dpc' = "done"
                    /\ UNCHANGED <<i, x, y, c, j>>
               ELSE /\ i' = 0
                    /\ y' = 0
                    /\ x' = 0
                    /\ c' = 0
                    /\ j' = height - h
                    /\ dpc' = "row"
                    /\ UNCHANGED derr
    /\ UNCHANGED <<width, height, length, buffer, img>>
    /\ UNCHANGED <<loadVars, storeVars, getVars>>

(***************************************************************************)
(* GetImage: checks, payload, decoder dispatch                             *)
(***************************************************************************)
\* The switch on workRecord.Type with case 276 left out.
DecoderNo276(t) ==
    IF t \in {0, 1, 10, 12, 13} THEN "plain"
    ELSE IF t = 30 THEN "iso"
    ELSE IF t \in {256, 257} THEN "loop"
    ELSE "unknown"

\* The switch on workRecord.Type: the position the chosen decoder starts at
\* ("loop" is writeTransparentImage, which is all loadSpriteImage runs).
Decoder(t) ==
    IF t \in {0, 1, 10, 12, 13} THEN "plain"
    ELSE IF t = 30 THEN "iso"
    ELSE IF t \in {256, 257, 276} THEN "loop"
    ELSE "unknown"

\* GetImage up to the call of fillBuffer
GetImage_Check ==
    /\ dpc = "getimage"
    /\ IF ~sgImage.parent
       THEN derr' = "Image has no bitmap parent" /\ dpc' = "returned"
       ELSE IF sgImage.workRecord.Width <= 0 \/ sgImage.workRecord.Height <= 0
            THEN derr' = "Width or height invalid" /\ dpc' = "returned"
            ELSE IF sgImage.workRecord.Length <= 0
                 THEN derr' = "No image data available" /\ dpc' = "returned"
                 ELSE dpc' = "fill" /\ UNCHANGED derr
    /\ UNCHANGED <<width, height, length, buffer, img, i, x, y, c, j>>
    /\ UNCHANGED <<loadVars, storeVars, getVars>>

\* GetImage once fillBuffer has returned: its error is returned, otherwise the
\* raster is made and the decoder chosen by the type runs on it.
GetImage_Dispatch ==
    /\ dpc \in {"filled", "failed"}
    /\ IF derr # "nil"
       THEN /\ dpc' = "returned"
            /\ UNCHANGED <<width, height, length, img, derr>>
       ELSE /\ width' = sgImage.workRecord.Width
            /\ height' = sgImage.workRecord.Height
            /\ length' = sgImage.workRecord.Length
            /\ IF Decoder(sgImage.workRecord.Type) = "unknown"
               THEN /\ derr' = "Unknown image type"
                    /\ dpc' = "returned"
                    /\ UNCHANGED img
               ELSE /\ img' = NewRGBA(sgImage.workRecord.Width, sgImage.workRecord.Height,
                                      TransparentBlack)
                    /\ dpc' = Decoder(sgImage.workRecord.Type)
                    /\ UNCHANGED derr
    /\ UNCHANGED <<buffer, i, x, y, c, j>>
    /\ UNCHANGED <<loadVars, storeVars, getVars>>

\* GetImage once the decoder has returned: its error is returned, an alpha
\* mask is handed to loadAlphaMask, otherwise the raster is ready.
GetImage_Decoded ==
    /\ dpc = "done"
    /\ IF derr # "nil"
       THEN dpc' = "returned" /\ UNCHANGED <<length, buffer>>
       ELSE IF sgImage.workRecord.AlphaLength > 0
            THEN /\ buffer' = SubSeq(buffer, sgImage.workRecord.Length + 1, Len(buffer))
                 /\ length' = sgImage.workRecord.AlphaLength
                 /\ dpc' = "alpha"
            ELSE dpc' = "decoded" /\ UNCHANGED <<length, buffer>>
    /\ UNCHANGED <<width, height, img, i, x, y, c, j, derr>>
    /\ UNCHANGED <<loadVars, storeVars, getVars>>

\* The type values and the payload bytes GetImage is run on.
GetImageTypes == {0, 1, 2, 10, 12, 13, 30, 256, 257, 276, 277}
GetImageBytes == {1, 255}

GetImageInit ==
    /\ dpc = "getimage"
    /\ \E hasParent \in BOOLEAN, w \in 0..MaxWidth, h \in 0..MaxHeight, len \in 0..MaxLen,
          t \in GetImageTypes :
           \E f3 \in IF t = 30 THEN {0, 1} ELSE {0} :
               sgImage = [parent |-> hasParent, invert |-> FALSE,
                          workRecord |-> [NoRecord EXCEPT !.Width = w, !.Height = h,
                                                          !.Length = len, !.Type = t,
                                                          !.Flags3 = f3]]
    /\ store \in Payloads(MaxLen, GetImageBytes)
    /\ ret = NoRaster
    /\ spc = "idle"
    /\ file = 0
    /\ isExtern = FALSE
    /\ handles = <<>>
    /\ \E found \in BOOLEAN : storeFound = [e \in BOOLEAN |-> found]
    /\ sarg = FALSE
    /\ sret = NoResult
    /\ width = 0
    /\ height = 0
    /\ length = 0
    /\ buffer = <<>>
    /\ img = <<>>
    /\ i = 0
    /\ x = 0
    /\ y = 0
    /\ c = 0
    /\ j = 0
    /\ derr = "nil"
    \* no load is running
    /\ pc = "idle"
    /\ fileExists = FALSE
    /\ fileSize = 0
    /\ header = NoHeader
    /\ pos = 0
    /\ bitmaps = <<>>
    /\ images = <<>>
    /\ err = "none"

GetImageNext ==
    \/ GetImage_Check
    \/ Fill_OpenFile
    \/ OpenFile_Open
    \/ Fill_Read
    \/ GetImage_Dispatch
    \/ LoadPlainImage
    \/ Iso_Resolve
    \/ WT_Control
    \/ WT_Skip
    \/ WT_Pixel
    \/ WT_RunEnd
    \/ WT_Exit
    \/ GetImage_Decoded
    \/ GetImage_Return

SpecGetImage == GetImageInit /\ [][GetImageNext]_vars

\* The image has a parent, positive width, height and length, and its
\* pixel store can be opened and holds the payload.
C12_Readable ==
    /\ sgImage.parent
    /\ sgImage.workRecord.Width > 0
    /\ sgImage.workRecord.Height > 0
    /\ sgImage.workRecord.Length > 0
    /\ storeFound[sgImage.workRecord.Flags0 # 0]
    /\ sgImage.workRecord.Length <= Len(store)

\* C12: GetImage on an image with a parent, positive width, height and length
\* and a readable pixel store reaches the switch on the working record's type,
\* and the switch starts the plain decoder for types 0, 1, 10, 12, 13, the
\* isometric decoder for type 30, the sprite decoder for types 256, 257, 276,
\* and for any other type returns the Unknown Type error and no raster.
C12_Dispatch ==
    /\ [](C12_Readable =>
              /\ dpc # "failed"
              /\ dpc = "returned" => derr \in {"nil", "Unknown image type", "Unknown tile size",
                                              "Image data length doesn't match image size"})
    /\ [][dpc = "filled" =>
              LET t == sgImage.workRecord.Type
              IN /\ t \in {0, 1, 10, 12, 13} => dpc' = "plain"
                 /\ t = 30 => dpc' = "iso"
                 /\ t \in {256, 257, 276} => dpc' = "loop"
                 /\ t \notin {0, 1, 10, 12, 13, 30, 256, 257, 276} =>
                        /\ dpc' = "returned"
                        /\ derr' = "Unknown image type"
                        /\ ret' = NoRaster]_vars

\* GetImage has run the sprite decoder on a type-276 image and returned its
\* raster.
C12_Witness ==
    /\ dpc = "returned"
    /\ sgImage.workRecord.Type = 276
    /\ derr = "nil"
    /\ ret # NoRaster
    /\ i = length

(***************************************************************************)
(* loadIsometricImage: the base tiles and the overlay                      *)
(***************************************************************************)
\* The largest tile-grid size of the isometric images decoded.
MaxTiles == 2

\* The first column of row ty of the tile's diamond with the upper-half
\* formula shifted by one row.
TileRowStartShifted(th, ty) ==
    IF ty < th \div 2 THEN th - 2 * ty ELSE 2 * ty - th

\* start of row ty of the tile's diamond: the first loop of writeIsometricTile
\* covers the rows above halfHeight, the second the rows from it on.
TileRowStart(th, ty) ==
    IF ty < th \div 2 THEN th - 2 * (ty + 1) ELSE 2 * ty - th

\* end := tileWidth - start
TileRowEnd(tw, th, ty) == tw - TileRowStart(th, ty)

\* The read index i of writeIsometricTile when row ty begins: 0 at the top,
\* advanced by two for every pixel of the rows before.
RECURSIVE TileRowIndex(_, _, _)
TileRowIndex(tw, th, ty) ==
    IF ty = 0 THEN 0
    ELSE TileRowIndex(tw, th, ty - 1)
           + 2 * (TileRowEnd(tw, th, ty - 1) - TileRowStart(th, ty - 1))

\* The pixels (tx, ty) of the tile that writeIsometricTile sets.
TileMask(tw, th) ==
    {p \in (0..(tw - 1)) \X (0..(th - 1)) :
        p[1] >= TileRowStart(th, p[2]) /\ p[1] < TileRowEnd(tw, th, p[2])}

\* The indices of its buffer that writeIsometricTile reads: buffer[i] and
\* buffer[i+1] for every pixel set.
TileReads(tw, th) ==
    {TileRowIndex(tw, th, q[1][2]) + 2 * (q[1][1] - TileRowStart(th, q[1][2])) + q[2] :
        q \in TileMask(tw, th) \X {0, 1}}

\* writeIsometricTile(img, buffer[base:], xOffset, yOffset, tileWidth,
\* tileHeight); the word is uint16(buffer[i+1]<<8) | uint16(buffer[i]), the
\* shift being a uint8 shift.
writeIsometricTile(im, buf, base, xOff, yOff, tw, th) ==
    [p \in DOMAIN im |->
        LET tx == p[1] - xOff
            ty == p[2] - yOff
        IN IF ty >= 0 /\ ty < th /\ tx >= TileRowStart(th, ty) /\ tx < TileRowEnd(tw, th, ty)
           THEN LET n == base + TileRowIndex(tw, th, ty) + 2 * (tx - TileRowStart(th, ty))
                    word == BitOr(Shl8(buf[n + 2], 8), buf[n + 1])
                IN set555Pixel(NewRGBA(1, 1, im[p]), 0, 0, word)[<<0, 0>>]
           ELSE im[p]]

\* a - b on uint32 values; a wrapped difference is beyond the model's
\* integers and stands as the largest of them, above every buffer length.
Uint32Sub(a, b) == IF a >= b THEN a - b ELSE 2147483647

\* The head of one row of the loop of writeIsometricBase, or its end, after
\* which loadIsometricImage goes on to the overlay.
Iso_Row ==
    /\ dpc = "row"
    /\ LET h == FootprintHeight(width)
           size == TileGridSize(h, sgImage.workRecord.Flags3)
           tile == TileOf(h, size)
       IN IF y < size + (size - 1)
          THEN /\ c' = (IF y < size THEN size - y - 1 ELSE y - size + 1) * tile.height
               /\ x' = 0
               /\ dpc' = "tile"
          ELSE /\ dpc' = "overlay"
               /\ UNCHANGED <<c, x>>
    /\ UNCHANGED <<width, height, length, buffer, img, i, y, j, derr>>
    /\ UNCHANGED <<loadVars, storeVars, getVars>>

\* One turn of the inner loop: tile i is written from buffer[i*tileBytes:];
\* the slice and every read of the tile panic beyond the buffer.
Iso_Tile ==
    /\ dpc = "tile"
    /\ LET h == FootprintHeight(width)
           size == TileGridSize(h, sgImage.workRecord.Flags3)
           tile == TileOf(h, size)
           xRange == IF y < size THEN y + 1 ELSE 2 * size - y - 1
       IN /\ x < xRange
          /\ IF \/ i * tile.bytes > Len(buffer)
                \/ \E n \in TileReads(tile.width, tile.height) :
                       i * tile.bytes + n >= Len(buffer)
             THEN dpc' = "panic" /\ UNCHANGED <<img, c, i, x>>
             ELSE /\ img' = writeIsometricTile(img, buffer, i * tile.bytes, c, j,
                                               tile.width, tile.height)
                  /\ c' = c + tile.width + 2
                  /\ i' = i + 1
                  /\ x' = x + 1
                  /\ UNCHANGED dpc
    /\ UNCHANGED <<width, height, length, buffer, y, j, derr>>
    /\ UNCHANGED <<loadVars, storeVars, getVars>>

\* The end of one row: yOffset += tileHeight / 2
Iso_RowEnd ==
    /\ dpc = "tile"
    /\ LET h == FootprintHeight(width)
           size == TileGridSize(h, sgImage.workRecord.Flags3)
           tile == TileOf(h, size)
           xRange == IF y < size THEN y + 1 ELSE 2 * size - y - 1
       IN /\ ~(x < xRange)
          /\ j' = j + tile.height \div 2
          /\ y' = y + 1
          /\ dpc' = "row"
    /\ UNCHANGED <<width, height, length, buffer, img, i, x, c, derr>>
    /\ UNCHANGED <<loadVars, storeVars, getVars>>

\* loadIsometricImage after the base: writeTransparentImage on
\* buffer[UncompressedLength:] with length Length - UncompressedLength.
Iso_Overlay ==
    /\ dpc = "overlay"
    /\ IF sgImage.workRecord.UncompressedLength > Len(buffer)
       THEN dpc' = "panic" /\ UNCHANGED <<length, buffer, i, x, y, c, j>>
       ELSE /\ buffer' = SubSeq(buffer, sgImage.workRecord.UncompressedLength + 1, Len(buffer))
            /\ length' = Uint32Sub(sgImage.workRecord.Length,
                                   sgImage.workRecord.UncompressedLength)
            /\ i' = 0
            /\ x' = 0
            /\ y' = 0
            /\ c' = 0
            /\ j' = 0
            /\ dpc' = "loop"
    /\ UNCHANGED <<width, height, img, derr>>
    /\ UNCHANGED <<loadVars, storeVars, getVars>>

\* The widths of the isometric images decoded: footprints of s small or large
\* tiles, one width off the grid, and one whose footprint fits no tile.
IsoWidths ==
    {ISOMETRIC_TILE_HEIGHT * 2 * s - 2 : s \in 1..MaxTiles}
        \cup {ISOMETRIC_TILE_HEIGHT * 2 * s - 1 : s \in 1..MaxTiles}
        \cup {ISOMETRIC_LARGE_TILE_HEIGHT * 2 * s - 2 : s \in 1..MaxTiles}
        \cup {10}

\* The raster heights: the footprint height and two rows more for an image of
\* one tile, and for every width a raster of two rows, which holds the bottom
\* of the footprint only.
IsoHeights(w) ==
    {2} \cup (IF FootprintHeight(w) <= ISOMETRIC_LARGE_TILE_HEIGHT
              THEN {FootprintHeight(w), FootprintHeight(w) + 2}
              ELSE {})

\* The overlay stream behind the base tiles: skip 3, one pixel, end.
IsoOverlay == <<255, 3, 1, 31, 0>>

\* n bytes of base-tile data followed by the overlay stream
IsoPayload(n) == [k \in 1..n |-> (k * 7) % 256] \o IsoOverlay

IsoInit ==
    /\ dpc = "iso"
    /\ width \in IsoWidths
    /\ height \in IsoHeights(width)
    /\ \E f3 \in 0..MaxTiles, excess \in {0, 1}, missing \in {0, 1} :
           LET ul == (width + 2) * FootprintHeight(width) + excess
               base == ul - missing * (ul - 4)
           IN /\ buffer = IsoPayload(base)
              /\ sgImage = [parent |-> TRUE, invert |-> FALSE,
                            workRecord |-> [NoRecord EXCEPT !.Width = width, !.Height = height,
                                                            !.Type = 30, !.Flags3 = f3,
                                                            !.UncompressedLength = ul,
                                                            !.Length = base + Len(IsoOverlay)]]
    /\ length = sgImage.workRecord.Length
    /\ img = NewRGBA(width, height, TransparentBlack)
    /\ store = <<>>
    /\ ret = NoRaster
    /\ i = 0
    /\ x = 0
    /\ y = 0
    /\ c = 0
    /\ j = 0
    /\ derr = "nil"
    \* no load and no pixel store is running
    /\ pc = "idle"
    /\ fileExists = FALSE
    /\ fileSize = 0
    /\ header = NoHeader
    /\ pos = 0
    /\ bitmaps = <<>>
    /\ images = <<>>
    /\ err = "none"
    /\ spc = "off"
    /\ file = 0
    /\ isExtern = FALSE
    /\ handles = <<>>
    /\ storeFound = [e \in BOOLEAN |-> FALSE]
    /\ sarg = FALSE
    /\ sret = [kind |-> "none", h |-> 0]

IsoNext ==
    \/ Iso_Resolve
    \/ Iso_Row
    \/ Iso_Tile
    \/ Iso_RowEnd
    \/ Iso_Overlay
    \/ WT_Control
    \/ WT_Skip
    \/ WT_Pixel
    \/ WT_RunEnd
    \/ WT_Exit

SpecIso == IsoInit /\ [][IsoNext]_vars

\* The footprint height fits no tile size: Flags[3] is 0 and the height is
\* divisible by neither 30 nor 40, or Flags[3] is a size s with neither
\* 30 s nor 40 s equal to the height.
BadTileSize ==
    LET h == (sgImage.workRecord.Width + 2) \div 2
        f3 == sgImage.workRecord.Flags3
    IN IF f3 = 0
       THEN h % 30 # 0 /\ h % 40 # 0
       ELSE 30 * f3 # h /\ 40 * f3 # h

\* C13: decoding an isometric image whose footprint height fits no tile size
\* ends with the Bad Tile Size error returned as an error value, without a
\* crash.
C13_BadTileSizeError ==
    (dpc # "iso" /\ BadTileSize) => (dpc = "done" /\ derr = "Unknown tile size")

(***************************************************************************)
(* fillBuffer on stores of every length                                    *)
(***************************************************************************)
\* The largest offset of an image's payload and the longest pixel store.
MaxOffset == 2
MaxStore == 7

\* A pixel store of n bytes, byte k - 1 (0-based) holding k.
StorePrefix(n) == [k \in 1..n |-> k]

\* What the bitmap holds when fillBuffer starts: no handle, or the handle of
\* an earlier OpenFile, open or closed by CloseFile since.
PriorHandles == {<<>>} \cup {<<[isExtern |-> e, open |-> o]>> : e \in BOOLEAN, o \in BOOLEAN}

FillInit ==
    /\ dpc = "fill"
    /\ \E off \in 0..MaxOffset, len \in 1..MaxLen, alen \in 0..MaxAlpha, f0 \in {0, 1} :
           sgImage = [parent |-> TRUE, invert |-> FALSE,
                      workRecord |-> [NoRecord EXCEPT !.Width = 1, !.Height = 1,
                                                      !.Offset = off, !.Length = len,
                                                      !.AlphaLength = alen, !.Flags0 = f0]]
    /\ \E n \in 0..MaxStore : store = StorePrefix(n)
    /\ ret = NoRaster
    /\ spc = "idle"
    /\ handles \in PriorHandles
    /\ file = Len(handles)
    /\ isExtern = (handles # <<>> /\ handles[1].isExtern)
    /\ storeFound \in [BOOLEAN -> BOOLEAN]
    /\ sarg = FALSE
    /\ sret = NoResult
    /\ width = 0
    /\ height = 0
    /\ length = 0
    /\ buffer = <<>>
    /\ img = <<>>
    /\ i = 0
    /\ x = 0
    /\ y = 0
    /\ c = 0
    /\ j = 0
    /\ derr = "nil"
    \* no load is running
    /\ pc = "idle"
    /\ fileExists = FALSE
    /\ fileSize = 0
    /\ header = NoHeader
    /\ pos = 0
    /\ bitmaps = <<>>
    /\ images = <<>>
    /\ err = "none"

FillNext ==
    \/ Fill_OpenFile
    \/ OpenFile_Open
    \/ Fill_Read

SpecFill == FillInit /\ [][FillNext]_vars

\* The position fillBuffer is to seek to: offset for an internal image,
\* offset - 1 for an external one.
C14_SeekPos ==
    IF sgImage.workRecord.Flags0 = 0
    THEN sgImage.workRecord.Offset
    ELSE sgImage.workRecord.Offset - 1

\* The bytes requested: length + alpha_length.
C14_Requested == sgImage.workRecord.Length + sgImage.workRecord.AlphaLength

\* The bytes the read returns: those the store holds from the seek position
\* on, among the requested ones.
C14_Returned == Cardinality({k \in 1..C14_Requested : C14_SeekPos + k <= Len(store)})

\* C14: once fillBuffer has an open handle and has sought to offset (internal)
\* or offset - 1 (external), it requests length + alpha_length bytes; a read
\* of all of them returns the buffer as read; a read of exactly four bytes
\* fewer is accepted with the last four bytes zero; any other short read
\* returns the Truncated error and no buffer.
C14_FillBuffer ==
    (/\ dpc \in {"filled", "failed"}
     /\ sret.kind = "file"
     /\ handles[sret.h].open
     /\ C14_SeekPos >= 0) =>
        /\ C14_Returned = C14_Requested =>
               /\ dpc = "filled"
               /\ buffer = [k \in 1..C14_Requested |-> store[C14_SeekPos + k]]
        /\ C14_Returned = C14_Requested - 4 =>
               /\ dpc = "filled"
               /\ buffer = [k \in 1..C14_Requested |->
                                IF k <= C14_Returned THEN store[C14_SeekPos + k] ELSE 0]
        /\ C14_Returned \notin {C14_Requested, C14_Requested - 4} =>
               /\ dpc = "failed"
               /\ derr = "Unable to read"
               /\ buffer = <<>>

\* fillBuffer has accepted a read four bytes short for an external image: one
\* byte from offset - 1, then four zero bytes.
C14_Witness ==
    /\ dpc = "filled"
    /\ sgImage.workRecord.Flags0 # 0
    /\ sgImage.workRecord.Offset >= 1
    /\ Len(store) = sgImage.workRecord.Offset
    /\ buffer = <<store[sgImage.workRecord.Offset], 0, 0, 0, 0>>

(***************************************************************************)
(* CloseFile and the handle the bitmap holds                               *)
(***************************************************************************)
\* C15: CloseFile releases the open pixel-store handle and leaves the bitmap
\* holding no handle, so the handle a later successful OpenFile returns is an
\* open one, never the handle CloseFile closed; and CloseFile on a bitmap that
\* never opened a store does not fail.
C15_CloseReleases ==
    /\ []((spc = "idle" /\ sret.kind = "file") => handles[sret.h].open)
    /\ [][(spc = "idle" /\ spc' = "idle") =>
              /\ file' = 0
              /\ OpenHandles' = {}
              /\ handles = <<>> => sret' = NilResult]_vars

(***************************************************************************)
(* The base layer of an accepted isometric image                           *)
(***************************************************************************)
\* The tile-grid size and the tile of the image under decode.
C16_Size == TileGridSize(FootprintHeight(width), sgImage.workRecord.Flags3)
C16_Tile == TileOf(FootprintHeight(width), C16_Size)

\* C16: for an isometric image writeIsometricBase accepts, with tile-grid size
\* s: every tile's diamond mask covers tile_bytes / 2 pixels (900 for the
\* 58x30 tile, 1600 for the 78x40 tile); row r of the base layer holds r + 1
\* tiles when r < s and 2s - r - 1 tiles otherwise; the layer ends after 2s - 1
\* rows and s * s tiles; and tile t reads only bytes from t * tile_bytes up to,
\* not including, (t + 1) * tile_bytes, all of them below uncompressed_length.
C16_BaseTiles ==
    /\ [](dpc \in {"row", "tile", "overlay"} =>
              LET covered == Cardinality(TileMask(C16_Tile.width, C16_Tile.height))
              IN /\ 2 * covered = C16_Tile.bytes
                 /\ (C16_Tile.width = 58 /\ C16_Tile.height = 30) => covered = 900
                 /\ (C16_Tile.width = 78 /\ C16_Tile.height = 40) => covered = 1600)
    /\ [][/\ (dpc = "tile" /\ dpc' = "row") =>
                 x = IF y < C16_Size THEN y + 1 ELSE 2 * C16_Size - y - 1
          /\ (dpc = "row" /\ dpc' = "overlay") =>
                 /\ y = 2 * C16_Size - 1
                 /\ i = C16_Size * C16_Size
          /\ (dpc = "tile" /\ dpc' # "row") =>
                 \A n \in TileReads(C16_Tile.width, C16_Tile.height) :
                     /\ i * C16_Tile.bytes + n >= i * C16_Tile.bytes
                     /\ i * C16_Tile.bytes + n < (i + 1) * C16_Tile.bytes
                     /\ i * C16_Tile.bytes + n < sgImage.workRecord.UncompressedLength]_vars

\* The base layer of a 2x2 grid of large tiles is complete: three rows, four
\* tiles.
C16_Witness ==
    /\ dpc = "overlay"
    /\ C16_Tile.width = 78
    /\ C16_Size = 2
    /\ y = 3
    /\ i = 4

====
